---- MODULE Spec2Model ----
(***************************************************************************)
(* Model of the namespace hierarchy of sjasmplus-doc-tool                  *)
(* (src/src/hierarchyentry.ts): the HierarchyEntry tree, getEntry,         *)
(* setDescriptions / getSingleDescription and iterate.                     *)
(*                                                                         *)
(* Strings are sequences of UTF-16 code units (numbers), so that indexOf,  *)
(* substr, the regular expressions and join are computed character by      *)
(* character.  Objects live in a heap: heap[i] is the HierarchyEntry with  *)
(* reference i, heap[Root] is the root.  A JavaScript Map is a sequence of *)
(* [key, entry] records in insertion order with unique keys.               *)
(***************************************************************************)
EXTENDS Integers, Sequences, FiniteSets, TLC

VARIABLES heap, labels, lines, described, obs

vars == <<heap, labels, lines, described, obs>>

----------------------------------------------------------------------------
(* Bounds *)

MaxInserts == 3
MaxLines == 4

----------------------------------------------------------------------------
(* Values *)

\* lineNumber of an entry without a label (constructor).
Sentinel == -1

\* string|undefined
Undefined == [def |-> FALSE, val |-> <<>>]
Str(s) == [def |-> TRUE, val |-> s]

\* HierarchyEntry|undefined: the reference that is no entry.
UndefinedEntry == 0

Root == 1

\* new HierarchyEntry()
NewEntry == [lineNumber |-> Sentinel, elements |-> <<>>, description |-> Undefined]

\* The fields of a HierarchyEntry in the heap h.
IsHierarchyEntry(h, e) ==
    /\ DOMAIN e = {"lineNumber", "elements", "description"}
    /\ e.lineNumber \in Int /\ e.lineNumber >= Sentinel
    /\ \A i \in 1..Len(e.elements) :
          /\ e.elements[i].entry \in 2..Len(h)
          /\ \A j \in 1..Len(e.elements) : e.elements[i].key = e.elements[j].key => i = j
    /\ e.description.def \in BOOLEAN

\* The heap holds the root and the entries of its elements maps.
TypeOK == Len(heap) >= 1 /\ \A n \in 1..Len(heap) : IsHierarchyEntry(heap, heap[n])

\* The code units that \s matches: the white space TAB, VT, FF, SP,
\* NBSP (U+00A0), ZWNBSP (U+FEFF) and the space separators U+1680,
\* U+2000..U+200A, U+202F, U+205F, U+3000, and the line terminators.
Whitespace ==
    {9, 11, 12, 32, 160, 5760, 8239, 8287, 12288, 65279} \cup (8192..8202)
        \cup {10, 13, 8232, 8233}

\* The code units that '.' does not match: LF, CR, U+2028, U+2029.
LineTerminators == {10, 13, 8232, 8233}

\* The characters the code names: ';' of the comment pattern, '.' of the
\* label paths, '\n' of the join.
Semicolon == 59
Dot == 46
Newline == 10

\* The code units of the characters written in this module.
CodeOf ==
    ("a" :> 97) @@ ("b" :> 98) @@ ("c" :> 99) @@ ("d" :> 100) @@ ("e" :> 101)
    @@ ("l" :> 108) @@ ("w" :> 119) @@ ("x" :> 120) @@ ("y" :> 121) @@ ("z" :> 122)
    @@ ("1" :> 49) @@ (":" :> 58) @@ (";" :> 59) @@ ("." :> 46)
    @@ (" " :> 32) @@ ("\t" :> 9) @@ ("\r" :> 13) @@ ("\n" :> 10)

\* The string written as a sequence of its characters.
Chars(s) == [i \in 1..Len(s) |-> CodeOf[s[i]]]

----------------------------------------------------------------------------
(* Strings *)

\* label.indexOf(c): 0-based index of the first c, -1 if none.
RECURSIVE IndexOfFrom(_, _, _)
IndexOfFrom(s, c, i) ==
    IF i > Len(s) THEN -1
    ELSE IF s[i] = c THEN i - 1
    ELSE IndexOfFrom(s, c, i + 1)

IndexOf(s, c) == IndexOfFrom(s, c, 1)

\* s.substr(from, length) and s.substr(from), 0-based.
Substr(s, from, length) ==
    SubSeq(s, from + 1, IF from + length > Len(s) THEN Len(s) ELSE from + length)

SubstrFrom(s, from) == SubSeq(s, from + 1, Len(s))

\* array.join('\n')
RECURSIVE JoinNewline(_)
JoinNewline(arr) ==
    IF Len(arr) = 0 THEN <<>>
    ELSE IF Len(arr) = 1 THEN arr[1]
    ELSE arr[1] \o <<Newline>> \o JoinNewline(Tail(arr))

\* /^\s*$/.exec(line) succeeds.
MatchesBlank(line) == \A i \in 1..Len(line) : line[i] \in Whitespace

\* (.*) at the start of s: the longest prefix without a line terminator.
RECURSIVE DotStar(_)
DotStar(s) ==
    IF Len(s) = 0 \/ s[1] \in LineTerminators THEN <<>>
    ELSE <<s[1]>> \o DotStar(Tail(s))

\* /^\s*;(.*)/.exec(line): the capture group, Undefined when no match.
RECURSIVE MatchComment(_)
MatchComment(line) ==
    IF Len(line) = 0 THEN Undefined
    ELSE IF line[1] \in Whitespace THEN MatchComment(Tail(line))
    ELSE IF line[1] = Semicolon THEN Str(DotStar(Tail(line)))
    ELSE Undefined

----------------------------------------------------------------------------
(* ListFile.getMainLine: the logical source text of a raw listing line,   *)
(* the listing's leading metadata columns removed.                         *)

MetaCols == 2

getMainLine(line) == SubstrFrom(line, MetaCols)

----------------------------------------------------------------------------
(* HierarchyEntry.getSingleDescription *)

\* lines[k], k 0-based.
LineAt(ls, k) == ls[k + 1]

\* The first loop giving up one empty line too early.
RECURSIVE SkipEmptyLines_twoLines(_, _, _)
SkipEmptyLines_twoLines(k0, lineNumber, ls) ==
    LET k == k0 - 1 IN
    IF k < 0 THEN -1
    ELSE IF ~MatchesBlank(LineAt(ls, k)) THEN k
    ELSE IF lineNumber - k >= 2 THEN -1
    ELSE SkipEmptyLines_twoLines(k, lineNumber, ls)

\* The first loop: skips the empty lines above the label.  Returns the
\* index of the first non-empty line, or -1 for 'return undefined'.
RECURSIVE SkipEmptyLines(_, _, _)
SkipEmptyLines(k0, lineNumber, ls) ==
    LET k == k0 - 1 IN
    IF k < 0 THEN -1
    ELSE IF ~MatchesBlank(LineAt(ls, k)) THEN k
    ELSE IF lineNumber - k >= 3 THEN -1
    ELSE SkipEmptyLines(k, lineNumber, ls)

\* The second loop with push in place of unshift.
RECURSIVE CollectComments_push(_, _, _)
CollectComments_push(k, ls, descr) ==
    IF k < 0 THEN descr
    ELSE LET match == MatchComment(getMainLine(LineAt(ls, k))) IN
         IF ~match.def THEN descr
         ELSE CollectComments_push(k - 1, ls, descr \o <<match.val>>)

\* The second loop: takes the consecutive comment lines from k upwards.
RECURSIVE CollectComments(_, _, _)
CollectComments(k, ls, descr) ==
    IF k < 0 THEN descr
    ELSE LET match == MatchComment(getMainLine(LineAt(ls, k))) IN
         IF ~match.def THEN descr
         ELSE CollectComments(k - 1, ls, <<match.val>> \o descr)

\* Returning '' where the code returns undefined.
getSingleDescription_emptyString(lineNumber, ls) ==
    LET k == SkipEmptyLines(lineNumber, lineNumber, ls) IN
    IF k < 0 THEN Str(<<>>)
    ELSE Str(JoinNewline(CollectComments(k, ls, <<>>)))

\* Returning undefined when no comment line was captured.
getSingleDescription_noneFound(lineNumber, ls) ==
    LET k == SkipEmptyLines(lineNumber, lineNumber, ls) IN
    IF k < 0 THEN Undefined
    ELSE IF Len(CollectComments(k, ls, <<>>)) = 0 THEN Undefined
    ELSE Str(JoinNewline(CollectComments(k, ls, <<>>)))

getSingleDescription(lineNumber, ls) ==
    LET k == SkipEmptyLines(lineNumber, lineNumber, ls) IN
    IF k < 0 THEN Undefined
    ELSE Str(JoinNewline(CollectComments(k, ls, <<>>)))

----------------------------------------------------------------------------
(* The elements map *)

Keys(m) == [i \in 1..Len(m) |-> m[i].key]

\* Map.get
MapGet(m, key) ==
    IF \E i \in 1..Len(m) : m[i].key = key
    THEN m[CHOOSE i \in 1..Len(m) : m[i].key = key].entry
    ELSE UndefinedEntry

\* A map that puts a new key first.
MapSet_newKeyFirst(m, key, entry) ==
    IF \E i \in 1..Len(m) : m[i].key = key
    THEN [m EXCEPT ![CHOOSE i \in 1..Len(m) : m[i].key = key].entry = entry]
    ELSE <<[key |-> key, entry |-> entry]>> \o m

\* Map.set: a new key goes last, an existing key keeps its place.
MapSet(m, key, entry) ==
    IF \E i \in 1..Len(m) : m[i].key = key
    THEN [m EXCEPT ![CHOOSE i \in 1..Len(m) : m[i].key = key].entry = entry]
    ELSE Append(m, [key |-> key, entry |-> entry])

----------------------------------------------------------------------------
(* Insertion of an exported label (the tree builder) *)

\* label.split('.')
RECURSIVE Split(_)
Split(label) ==
    LET k == IndexOf(label, Dot) IN
    IF k < 0 THEN <<label>>
    ELSE <<Substr(label, 0, k)>> \o Split(SubstrFrom(label, k + 1))

\* Walks the segments from 'this', creating the entries that are missing,
\* and sets the line number of the entry of the last segment.
RECURSIVE InsertLabel(_, _, _, _)
InsertLabel(h, this, parts, lineNumber) ==
    IF Len(parts) = 0 THEN [h EXCEPT ![this].lineNumber = lineNumber]
    ELSE LET found == MapGet(h[this].elements, Head(parts)) IN
         IF found # UndefinedEntry
         THEN InsertLabel(h, found, Tail(parts), lineNumber)
         ELSE LET new == Len(h) + 1
                  h1 == Append([h EXCEPT ![this].elements = MapSet(@, Head(parts), new)],
                               NewEntry)
              IN InsertLabel(h1, new, Tail(parts), lineNumber)

----------------------------------------------------------------------------
(* HierarchyEntry.getEntry *)

\* Searching the remaining label in 'this' again, not in the entry found.
RECURSIVE getEntry_sameLevel(_, _, _)
getEntry_sameLevel(h, this, label) ==
    LET k == IndexOf(label, Dot) IN
    IF k < 0 THEN MapGet(h[this].elements, label)
    ELSE LET first == Substr(label, 0, k)
             remaining == SubstrFrom(label, k + 1)
             entry == MapGet(h[this].elements, first)
         IN IF entry = UndefinedEntry THEN UndefinedEntry
            ELSE getEntry_sameLevel(h, this, remaining)

\* Returning the entry reached so far when a segment is missing.
RECURSIVE getEntry_partial(_, _, _)
getEntry_partial(h, this, label) ==
    LET k == IndexOf(label, Dot) IN
    IF k < 0 THEN MapGet(h[this].elements, label)
    ELSE LET first == Substr(label, 0, k)
             remaining == SubstrFrom(label, k + 1)
             entry == MapGet(h[this].elements, first)
         IN IF entry = UndefinedEntry THEN this
            ELSE getEntry_partial(h, entry, remaining)

RECURSIVE getEntry(_, _, _)
getEntry(h, this, label) ==
    LET k == IndexOf(label, Dot) IN
    IF k < 0 THEN MapGet(h[this].elements, label)
    ELSE LET first == Substr(label, 0, k)
             remaining == SubstrFrom(label, k + 1)
             entry == MapGet(h[this].elements, first)
         IN IF entry = UndefinedEntry THEN UndefinedEntry
            ELSE getEntry(h, entry, remaining)

----------------------------------------------------------------------------
(* HierarchyEntry.setDescriptions *)

RECURSIVE setDescriptions(_, _, _)
RECURSIVE setDescriptionsOfElements(_, _, _, _)

\* The for loop over this.elements, from the i-th element on.
setDescriptionsOfElements(h, this, i, ls) ==
    IF i > Len(h[this].elements) THEN h
    ELSE setDescriptionsOfElements(
             setDescriptions(h, h[this].elements[i].entry, ls), this, i + 1, ls)

\* Appending to the description in place of assigning it.
RECURSIVE setDescriptions_append(_, _, _)
RECURSIVE setDescriptionsOfElements_append(_, _, _, _)
setDescriptionsOfElements_append(h, this, i, ls) ==
    IF i > Len(h[this].elements) THEN h
    ELSE setDescriptionsOfElements_append(
             setDescriptions_append(h, h[this].elements[i].entry, ls), this, i + 1, ls)

setDescriptions_append(h, this, ls) ==
    LET new == getSingleDescription(h[this].lineNumber, ls)
        old == h[this].description
    IN setDescriptionsOfElements_append(
           [h EXCEPT ![this].description =
                IF old.def /\ new.def THEN Str(old.val \o new.val) ELSE new],
           this, 1, ls)

setDescriptions(h, this, ls) ==
    setDescriptionsOfElements(
        [h EXCEPT ![this].description = getSingleDescription(h[this].lineNumber, ls)],
        this, 1, ls)

----------------------------------------------------------------------------
(* HierarchyEntry.iterate: the calls of the two handlers, in order *)

EnterEvent(label, entry) == [kind |-> "enter", label |-> label, entry |-> entry]
ExitEvent(label, entry) == [kind |-> "exit", label |-> label, entry |-> entry]

\* totalLabel without the test of prevLabel.length.
TotalLabel_leadingDot(prevLabel, label) == prevLabel \o <<Dot>> \o label

\* totalLabel
TotalLabel(prevLabel, label) ==
    IF Len(prevLabel) > 0 THEN prevLabel \o <<Dot>> \o label ELSE label

RECURSIVE iterate(_, _, _)
RECURSIVE iterateElements(_, _, _, _)

\* The for loop over this.elements, from the i-th element on.
iterateElements(h, this, prevLabel, i) ==
    IF i > Len(h[this].elements) THEN <<>>
    ELSE LET entry == h[this].elements[i].entry
             totalLabel == TotalLabel(prevLabel, h[this].elements[i].key)
         IN <<EnterEvent(totalLabel, entry)>>
            \o iterate(h, entry, totalLabel)
            \o <<ExitEvent(totalLabel, entry)>>
            \o iterateElements(h, this, prevLabel, i + 1)

\* The exit handler called before the recursion.
RECURSIVE iterate_exitFirst(_, _, _)
RECURSIVE iterateElements_exitFirst(_, _, _, _)
iterateElements_exitFirst(h, this, prevLabel, i) ==
    IF i > Len(h[this].elements) THEN <<>>
    ELSE LET entry == h[this].elements[i].entry
             totalLabel == TotalLabel(prevLabel, h[this].elements[i].key)
         IN <<EnterEvent(totalLabel, entry)>>
            \o <<ExitEvent(totalLabel, entry)>>
            \o iterate_exitFirst(h, entry, totalLabel)
            \o iterateElements_exitFirst(h, this, prevLabel, i + 1)

iterate_exitFirst(h, this, prevLabel) == iterateElements_exitFirst(h, this, prevLabel, 1)

iterate(h, this, prevLabel) == iterateElements(h, this, prevLabel, 1)

----------------------------------------------------------------------------
(* Inputs *)

\* The exported label paths.
Labels ==
    { Chars(<<"a", ".", "b">>),
      Chars(<<"a", ".", "b", ".", "c">>),
      Chars(<<"a", ".", "b", ".", "d">>),
      Chars(<<"a", ".", "e">>),
      Chars(<<"b">>) }

\* The labels looked up: the exported ones, present in the tree or not,
\* and a namespace that is never exported itself.
LookupLabels == Labels \cup { Chars(<<"a">>) }

\* Raw listing lines: MetaCols metadata columns, then the source text.
\* The indented comment has a no-break space before its ';'.
BlankLine == <<>>
WhiteLine == Chars(<<" ", "\t", " ">>)
CommentLine == Chars(<<" ", " ", ";", "x">>)
IndentedComment == Chars(<<"1", " ", "\t">>) \o <<160>> \o Chars(<<";", "y", ";">>)
CodeLine == Chars(<<" ", " ", "l", ":">>)
CodeWithComment == Chars(<<" ", " ", "l", ";", "z">>)
MetaOnlyLine == Chars(<<"1", " ">>)
\* Lines of a file with CR LF line ends, split at the LF; the empty one
\* holds a no-break space and a vertical tab.
CrBlankLine == <<160, 11, 13>>
CrCommentLine == Chars(<<" ", " ", ";", "w", "\r">>)

LineSet ==
    { BlankLine, WhiteLine, CommentLine, IndentedComment, CodeLine,
      CodeWithComment, MetaOnlyLine, CrBlankLine, CrCommentLine }

\* The files of the tree specification and the line numbers of its labels.
SourceFiles ==
    { <<IndentedComment, CrCommentLine, CrBlankLine, CodeLine>>,
      <<CodeLine, WhiteLine, WhiteLine, CodeLine>> }

LineNumbers == {0, 3}

\* Every file of at most MaxLines lines.
AllFiles == UNION { [1..n -> LineSet] : n \in 0..MaxLines }

NoObs == [kind |-> "none"]

----------------------------------------------------------------------------
(* Specification of the tree *)

Init ==
    /\ heap = <<NewEntry>>
    /\ labels = <<>>
    /\ lines \in SourceFiles
    /\ described = FALSE
    /\ obs = NoObs

Insert(label, lineNumber) ==
    /\ Len(labels) < MaxInserts
    /\ heap' = InsertLabel(heap, Root, Split(label), lineNumber)
    /\ labels' = Append(labels, [label |-> label, lineNumber |-> lineNumber])
    /\ described' = FALSE
    /\ obs' = NoObs
    /\ UNCHANGED lines

SetDescriptions ==
    /\ heap' = setDescriptions(heap, Root, lines)
    /\ described' = TRUE
    /\ obs' = [kind |-> "setDescriptions", again |-> described]
    /\ UNCHANGED <<labels, lines>>

GetEntry(label) ==
    /\ obs' = [kind |-> "getEntry", label |-> label,
               result |-> getEntry(heap, Root, label)]
    /\ UNCHANGED <<heap, labels, lines, described>>

Iterate ==
    /\ obs' = [kind |-> "iterate", events |-> iterate(heap, Root, <<>>)]
    /\ UNCHANGED <<heap, labels, lines, described>>

Next ==
    \/ \E label \in Labels, lineNumber \in LineNumbers : Insert(label, lineNumber)
    \/ SetDescriptions
    \/ \E label \in LookupLabels : GetEntry(label)
    \/ Iterate

Spec == Init /\ [][Next]_vars

----------------------------------------------------------------------------
(* Specification of getSingleDescription on its own *)

InitDescr ==
    /\ heap = <<NewEntry>>
    /\ labels = <<>>
    /\ lines \in AllFiles
    /\ described = FALSE
    /\ obs = NoObs

GetSingleDescription(lineNumber) ==
    /\ obs' = [kind |-> "getSingleDescription", lineNumber |-> lineNumber,
               result |-> getSingleDescription(lineNumber, lines)]
    /\ UNCHANGED <<heap, labels, lines, described>>

NextDescr == \E lineNumber \in Sentinel..Len(lines) : GetSingleDescription(lineNumber)

SpecDescr == InitDescr /\ [][NextDescr]_vars

----------------------------------------------------------------------------
(* What the claims say about lines, stated on the characters *)

\* Line k of the file is whitespace only.
BlankAt(ls, k) ==
    \A i \in 1..Len(LineAt(ls, k)) : LineAt(ls, k)[i] \in Whitespace

\* Position of the ';' that makes the logical text t a comment, 0 if none.
CommentMark(t) ==
    IF \E p \in 1..Len(t) : t[p] = Semicolon /\ \A q \in 1..(p - 1) : t[q] \in Whitespace
    THEN CHOOSE p \in 1..Len(t) : t[p] = Semicolon /\ \A q \in 1..(p - 1) : t[q] \in Whitespace
    ELSE 0

\* Line k is a comment line.
CommentAt(ls, k) == CommentMark(getMainLine(LineAt(ls, k))) > 0

\* All of the logical text of line k after its first ';'.
TextAfterMarkAt(ls, k) ==
    LET t == getMainLine(LineAt(ls, k)) IN SubSeq(t, CommentMark(t) + 1, Len(t))

\* The comment text of line k: the text after its first ';' up to the
\* first line terminator in it, or to the end of the line.
CommentTextAt(ls, k) ==
    LET t == TextAfterMarkAt(ls, k)
        ends == { i \in 1..Len(t) : t[i] \in LineTerminators }
    IN IF ends = {} THEN t
       ELSE SubSeq(t, 1, (CHOOSE i \in ends : \A j \in ends : i <= j) - 1)

Contains(s, t) ==
    \E i \in 0..(Len(s) - Len(t)) : SubSeq(s, i + 1, i + Len(t)) = t

\* The upward scan from line n reaches its first non-blank line at k.
ScanReaches(ls, n, k) ==
    /\ 0 <= k /\ k < n /\ n - k <= 3
    /\ ~BlankAt(ls, k)
    /\ \A j \in (k + 1)..(n - 1) : BlankAt(ls, j)

\* First line of the maximal run of comment lines that ends at k
\* (k + 1 when line k is no comment).
RunStart(ls, k) ==
    CHOOSE j \in 0..(k + 1) :
        /\ \A i \in j..k : CommentAt(ls, i)
        /\ j = 0 \/ ~CommentAt(ls, j - 1)

\* The comment texts of lines j..k, top to bottom, one newline between.
RECURSIVE TextOfRun(_, _, _)
TextOfRun(ls, j, k) ==
    IF j > k THEN <<>>
    ELSE IF j = k THEN CommentTextAt(ls, k)
    ELSE CommentTextAt(ls, j) \o <<Newline>> \o TextOfRun(ls, j + 1, k)

\* The run of lines j..k with all of the text after each first ';'.
RECURSIVE WholeTextOfRun(_, _, _)
WholeTextOfRun(ls, j, k) ==
    IF j > k THEN <<>>
    ELSE IF j = k THEN TextAfterMarkAt(ls, k)
    ELSE TextAfterMarkAt(ls, j) \o <<Newline>> \o WholeTextOfRun(ls, j + 1, k)

----------------------------------------------------------------------------
(* Claims on getSingleDescription (SpecDescr) *)

\* C4: for a label at line n >= 3, up to two blank lines directly above
\* the label are tolerated: with 0, 1 or 2 blank lines and then a comment
\* line, the result is a string containing that comment's text (without
\* a line terminator left at its end); with lines n-1, n-2 and n-3 all
\* blank the result is undefined, whatever is above.
C4_BlankLineTolerance ==
    obs.kind = "getSingleDescription" /\ obs.lineNumber >= 3 =>
        LET n == obs.lineNumber IN
        /\ \A b \in 0..2 :
              (/\ \A j \in 1..b : BlankAt(lines, n - j)
               /\ CommentAt(lines, n - 1 - b))
              => /\ obs.result.def
                 /\ Contains(obs.result.val, CommentTextAt(lines, n - 1 - b))
        /\ (\A j \in 1..3 : BlankAt(lines, n - j)) => obs.result = Undefined

\* Two blank lines, then a comment with a text, and the comment is found.
C4_Witness ==
    /\ obs.kind = "getSingleDescription"
    /\ obs.lineNumber >= 3
    /\ BlankAt(lines, obs.lineNumber - 1)
    /\ BlankAt(lines, obs.lineNumber - 2)
    /\ CommentAt(lines, obs.lineNumber - 3)
    /\ Len(CommentTextAt(lines, obs.lineNumber - 3)) > 0
    /\ obs.result.def
    /\ Contains(obs.result.val, CommentTextAt(lines, obs.lineNumber - 3))

\* C5 as stated: when the upward scan reaches its first non-blank line at
\* k, the result is the maximal contiguous run of comment lines that ends
\* at k, each with the text after its first ';', in file order, joined by
\* newlines.
C5_CommentRunAsStated ==
    obs.kind = "getSingleDescription" =>
        \A k \in 0..(obs.lineNumber - 1) :
            ScanReaches(lines, obs.lineNumber, k)
            => obs.result = Str(WholeTextOfRun(lines, RunStart(lines, k), k))

\* C5 (amended): when the upward scan reaches its first non-blank line at
\* k, the result is the maximal contiguous run of comment lines that ends
\* at k, each with the text after its first ';' up to the first line
\* terminator in the line (if any), in file order, joined by newlines; it
\* is the empty string when line k is no comment, and no comment above
\* the line that stops the run is included.
C5_CommentRun ==
    obs.kind = "getSingleDescription" =>
        \A k \in 0..(obs.lineNumber - 1) :
            ScanReaches(lines, obs.lineNumber, k)
            => obs.result = Str(TextOfRun(lines, RunStart(lines, k), k))

\* A run of two comment lines, one of them ending in a carriage return,
\* under a code line with a comment above it.
C5_Witness ==
    /\ obs.kind = "getSingleDescription"
    /\ \E k \in 2..(obs.lineNumber - 1) :
          /\ TextAfterMarkAt(lines, k - 1) # CommentTextAt(lines, k - 1)
          /\ ScanReaches(lines, obs.lineNumber, k)
          /\ RunStart(lines, k) = k - 1
          /\ k >= 3
          /\ CommentAt(lines, k - 3)
          /\ CommentTextAt(lines, k) # CommentTextAt(lines, k - 1)
          /\ obs.result =
                Str(CommentTextAt(lines, k - 1) \o <<Newline>> \o CommentTextAt(lines, k))

----------------------------------------------------------------------------
(* What the claims say about the tree, stated on the list of insertions *)

Range(f) == { f[i] : i \in DOMAIN f }

\* The segments of the i-th inserted label.
PartsOf(i) == Split(labels[i].label)

\* Sequence p is a prefix of sequence q.
IsPrefix(p, q) == Len(p) <= Len(q) /\ SubSeq(q, 1, Len(p)) = p

IsProperPrefix(p, q) == Len(p) < Len(q) /\ SubSeq(q, 1, Len(p)) = p

\* The label was inserted; the line number of its last insertion.
Inserted(label) == \E i \in 1..Len(labels) : labels[i].label = label

LastLineNumber(label) ==
    LET last == CHOOSE i \in 1..Len(labels) :
                   /\ labels[i].label = label
                   /\ \A j \in (i + 1)..Len(labels) : labels[j].label # label
    IN labels[last].lineNumber

\* Every sequence of segments that some inserted label starts with.
InsertedPrefixes ==
    {<<>>} \cup UNION { { SubSeq(PartsOf(i), 1, n) : n \in 0..Len(PartsOf(i)) } :
                         i \in 1..Len(labels) }

\* The entry reached from 'this' by following the segments one by one.
RECURSIVE Follow(_, _, _)
Follow(h, this, parts) ==
    IF Len(parts) = 0 THEN this
    ELSE IF \E i \in 1..Len(h[this].elements) : h[this].elements[i].key = Head(parts)
    THEN Follow(h,
                h[this].elements[CHOOSE i \in 1..Len(h[this].elements) :
                                    h[this].elements[i].key = Head(parts)].entry,
                Tail(parts))
    ELSE UndefinedEntry

\* The child segments under the prefix, in the order of their first
\* insertion, read off the first i insertions.
RECURSIVE FirstSeen(_, _)
FirstSeen(prefix, i) ==
    IF i = 0 THEN <<>>
    ELSE LET before == FirstSeen(prefix, i - 1)
             parts == PartsOf(i)
         IN IF IsProperPrefix(prefix, parts) /\ parts[Len(prefix) + 1] \notin Range(before)
            THEN Append(before, parts[Len(prefix) + 1])
            ELSE before

----------------------------------------------------------------------------
(* Claims on getEntry and on the order of the elements (Spec) *)

\* C1: getEntry of an inserted label returns a defined entry whose
\* lineNumber is the line number inserted with the label, and it is the
\* entry reached by following the label's segments through the elements
\* maps from the root.
C1_LookupOfInserted ==
    obs.kind = "getEntry" /\ Inserted(obs.label) =>
        /\ obs.result # UndefinedEntry
        /\ obs.result = Follow(heap, Root, Split(obs.label))
        /\ heap[obs.result].lineNumber = LastLineNumber(obs.label)

\* A label of three segments, inserted after another label, is found.
C1_Witness ==
    /\ obs.kind = "getEntry"
    /\ Len(labels) >= 2
    /\ labels[2].label = obs.label
    /\ Len(Split(obs.label)) = 3
    /\ obs.result # UndefinedEntry
    /\ heap[obs.result].lineNumber = 3
    /\ heap[Follow(heap, Root, <<Split(obs.label)[1]>>)].lineNumber = Sentinel

\* A proper prefix of an inserted label that was not inserted itself.
OnlyPrefix(label) ==
    /\ ~Inserted(label)
    /\ \E i \in 1..Len(labels) : IsProperPrefix(Split(label), PartsOf(i))

\* No inserted label runs through the path of this label.
NeverInserted(label) ==
    \A i \in 1..Len(labels) : ~IsPrefix(Split(label), PartsOf(i))

\* C2 as stated: getEntry returns undefined for every proper prefix that
\* was not itself inserted and for every path of a never inserted sibling.
C2_AbsenceAsStated ==
    obs.kind = "getEntry" /\ (OnlyPrefix(obs.label) \/ NeverInserted(obs.label)) =>
        obs.result = UndefinedEntry

\* C2 (amended): getEntry returns undefined for every path that names a
\* segment never inserted at its place (a sibling never inserted, a path
\* below a leaf; never the deepest existing ancestor).  For a proper
\* prefix of an inserted label that was not inserted itself it returns the
\* intermediate entry of that prefix, whose lineNumber is the sentinel.
C2_Absence ==
    obs.kind = "getEntry" =>
        /\ NeverInserted(obs.label) => obs.result = UndefinedEntry
        /\ OnlyPrefix(obs.label) =>
              /\ obs.result # UndefinedEntry
              /\ obs.result = Follow(heap, Root, Split(obs.label))
              /\ heap[obs.result].lineNumber = Sentinel

\* The lookup of a never inserted path fails below an existing entry.
C2_Witness ==
    /\ obs.kind = "getEntry"
    /\ NeverInserted(obs.label)
    /\ Len(Split(obs.label)) >= 3
    /\ Follow(heap, Root, <<Split(obs.label)[1]>>) # UndefinedEntry
    /\ Follow(heap, Root, SubSeq(Split(obs.label), 1, 2)) = UndefinedEntry
    /\ obs.result = UndefinedEntry

\* C3: at every entry the keys of the elements map are in the order in
\* which the child segments were first inserted, in every state
\* (after insertions through or at existing segments, duplicates and
\* setDescriptions alike).
C3_InsertionOrder ==
    \A prefix \in InsertedPrefixes :
        /\ Follow(heap, Root, prefix) # UndefinedEntry
        /\ Keys(heap[Follow(heap, Root, prefix)].elements) = FirstSeen(prefix, Len(labels))

\* Under 'a', 'e' came before 'b'; 'a.e' was revisited by a later,
\* deeper, prefix or duplicate insertion and setDescriptions has run.
C3_Witness ==
    /\ Len(labels) = 3
    /\ labels[1].label = Chars(<<"a", ".", "e">>)
    /\ IsPrefix(<< Chars(<<"a">>), Chars(<<"b">>) >>, PartsOf(2))
    /\ IsPrefix(PartsOf(3), << Chars(<<"a">>), Chars(<<"e">>) >>)
    /\ described
    /\ Keys(heap[Follow(heap, Root, << Chars(<<"a">>) >>)].elements)
          = << Chars(<<"e">>), Chars(<<"b">>) >>

----------------------------------------------------------------------------
(* What the claims say about the traversal, stated on the tree *)

\* The entries below the root.
Entries == 2..Len(heap)

\* c is a child of p; c is the i-th element of p.
IsChild(p, c) == \E i \in 1..Len(heap[p].elements) : heap[p].elements[i].entry = c

ParentOf(c) == CHOOSE p \in 1..Len(heap) : IsChild(p, c)

KeyOf(c) ==
    LET p == ParentOf(c)
    IN heap[p].elements[CHOOSE i \in 1..Len(heap[p].elements) :
                           heap[p].elements[i].entry = c].key

\* The segment keys from the root to the entry, joined by dots.
RECURSIVE PathLabel(_)
PathLabel(n) ==
    IF n = Root THEN <<>>
    ELSE IF ParentOf(n) = Root THEN KeyOf(n)
    ELSE PathLabel(ParentOf(n)) \o <<Dot>> \o KeyOf(n)

\* The positions in the events of the enter and exit calls of an entry.
EnterCalls(n) ==
    { i \in 1..Len(obs.events) : obs.events[i].kind = "enter" /\ obs.events[i].entry = n }

ExitCalls(n) ==
    { i \in 1..Len(obs.events) : obs.events[i].kind = "exit" /\ obs.events[i].entry = n }

EnterOf(n) == CHOOSE i \in EnterCalls(n) : TRUE

ExitOf(n) == CHOOSE i \in ExitCalls(n) : TRUE

\* The labels of the enter calls, in order.
RECURSIVE EnterLabels(_)
EnterLabels(events) ==
    IF Len(events) = 0 THEN <<>>
    ELSE IF Head(events).kind = "enter"
    THEN <<Head(events).label>> \o EnterLabels(Tail(events))
    ELSE EnterLabels(Tail(events))

InsertedLabels == [i \in 1..Len(labels) |-> labels[i].label]

----------------------------------------------------------------------------
(* Claims on iterate (Spec) *)

\* C6: iterate calls enter once and exit once for every entry below the
\* root, with the same label, and never for the root; an entry is entered
\* after its parent and left before its parent is left, and a sibling's
\* subtree is left before the next sibling in elements order is entered.
\* For a.b.c, a.b.d, a.e the enter order is a, a.b, a.b.c, a.b.d, a.e.
C6_Traversal ==
    obs.kind = "iterate" =>
        /\ \A n \in Entries :
              /\ Cardinality(EnterCalls(n)) = 1
              /\ Cardinality(ExitCalls(n)) = 1
              /\ obs.events[EnterOf(n)].label = obs.events[ExitOf(n)].label
              /\ EnterOf(n) < ExitOf(n)
        /\ \A i \in 1..Len(obs.events) : obs.events[i].entry \in Entries
        /\ \A n \in Entries : \A c \in Entries :
              IsChild(n, c) => EnterOf(n) < EnterOf(c) /\ ExitOf(c) < ExitOf(n)
        /\ \A p \in 1..Len(heap) : \A i, j \in 1..Len(heap[p].elements) :
              i < j => ExitOf(heap[p].elements[i].entry) < EnterOf(heap[p].elements[j].entry)
        /\ InsertedLabels = << Chars(<<"a", ".", "b", ".", "c">>),
                               Chars(<<"a", ".", "b", ".", "d">>),
                               Chars(<<"a", ".", "e">>) >>
              => EnterLabels(obs.events) =
                    << Chars(<<"a">>), Chars(<<"a", ".", "b">>), Chars(<<"a", ".", "b", ".", "c">>),
                       Chars(<<"a", ".", "b", ".", "d">>), Chars(<<"a", ".", "e">>) >>

\* The tree of a.b.c, a.b.d, a.e has been iterated.
C6_Witness ==
    /\ obs.kind = "iterate"
    /\ InsertedLabels = << Chars(<<"a", ".", "b", ".", "c">>), Chars(<<"a", ".", "b", ".", "d">>),
                           Chars(<<"a", ".", "e">>) >>
    /\ Len(obs.events) = 10
    /\ obs.events[1].label = Chars(<<"a">>)
    /\ obs.events[10] = ExitEvent(Chars(<<"a">>), 2)

\* C10: every (label, entry) pair handed to a handler has as label the
\* dot-joined segment keys from the root to the entry, without a leading
\* dot; getEntry of the label returns that entry, and two different
\* entries get different labels.
C10_FullyQualifiedLabel ==
    obs.kind = "iterate" =>
        /\ \A i \in 1..Len(obs.events) :
              /\ obs.events[i].label = PathLabel(obs.events[i].entry)
              /\ getEntry(heap, Root, obs.events[i].label) = obs.events[i].entry
        /\ \A i, j \in 1..Len(obs.events) :
              obs.events[i].entry # obs.events[j].entry
              => obs.events[i].label # obs.events[j].label

\* A handler got an entry two levels below a top-level entry, and a
\* top-level entry.
C10_Witness ==
    /\ obs.kind = "iterate"
    /\ \E i, j \in 1..Len(obs.events) :
          /\ Len(obs.events[i].label) = 5
          /\ obs.events[i].label = PathLabel(obs.events[i].entry)
          /\ Len(obs.events[j].label) = 1
          /\ getEntry(heap, Root, obs.events[i].label) = obs.events[i].entry

----------------------------------------------------------------------------
(* Claims on setDescriptions (Spec) *)

\* lineNumber and elements of every entry.
Shape(h) ==
    [n \in 1..Len(h) |-> [lineNumber |-> h[n].lineNumber, elements |-> h[n].elements]]

\* The upward scan from line n finds a non-blank line.
ScanFinds(ls, n) == \E k \in 0..(n - 1) : ScanReaches(ls, n, k)

FoundAt(ls, n) == CHOOSE k \in 0..(n - 1) : ScanReaches(ls, n, k)

\* C7: after setDescriptions every entry with the sentinel line number,
\* the root and the intermediate entries, has an undefined description.
C7_SentinelAbsent ==
    described =>
        \A n \in 1..Len(heap) :
            heap[n].lineNumber = Sentinel => heap[n].description = Undefined

\* An intermediate entry without description above one with a text.
C7_Witness ==
    /\ described
    /\ \E n \in Entries : \E c \in Entries :
          /\ IsChild(n, c)
          /\ heap[n].lineNumber = Sentinel
          /\ heap[n].description = Undefined
          /\ heap[c].description.def
          /\ Len(heap[c].description.val) > 0

\* C8 as stated: after setDescriptions the description is undefined only
\* for the sentinel line number, and a string for every other line number.
C8_AbsentOnlyForSentinel ==
    described =>
        \A n \in 1..Len(heap) :
            /\ heap[n].description = Undefined => heap[n].lineNumber = Sentinel
            /\ heap[n].lineNumber # Sentinel => heap[n].description.def

\* C8 (amended): after setDescriptions the description is undefined when
\* the line number is the sentinel and also when there is no non-blank
\* line among the (at most three) lines directly above the label, as for a
\* label on line 0; every other entry has a string, the empty string when
\* no comment line was captured and the joined comment text otherwise.
C8_ThreeOutcomes ==
    described =>
        \A n \in 1..Len(heap) :
            /\ heap[n].lineNumber = Sentinel => heap[n].description = Undefined
            /\ heap[n].lineNumber # Sentinel /\ ~ScanFinds(lines, heap[n].lineNumber)
                  => heap[n].description = Undefined
            /\ heap[n].lineNumber # Sentinel /\ ScanFinds(lines, heap[n].lineNumber)
                  => LET k == FoundAt(lines, heap[n].lineNumber) IN
                     /\ heap[n].description.def
                     /\ ~CommentAt(lines, k) => heap[n].description = Str(<<>>)
                     /\ CommentAt(lines, k)
                           => heap[n].description =
                                 Str(TextOfRun(lines, RunStart(lines, k), k))

\* One tree with an undefined description for a label on line 0 and a
\* string for a label on another line.
C8_Witness ==
    /\ described
    /\ \E n, m \in Entries :
          /\ heap[n].lineNumber = 0
          /\ heap[n].description = Undefined
          /\ heap[m].lineNumber = 3
          /\ heap[m].description.def

\* C9: setDescriptions changes no lineNumber and no elements map, and a
\* second run with the same lines on the same tree changes nothing at all.
C9_Idempotent ==
    [][described' =>
          /\ Shape(heap') = Shape(heap)
          /\ described => heap' = heap]_vars

\* setDescriptions has run a second time on a tree with a description.
C9_Witness ==
    /\ obs.kind = "setDescriptions"
    /\ obs.again
    /\ \E n \in Entries : heap[n].description.def /\ Len(heap[n].description.val) > 0
    /\ \E n \in Entries : ~heap[n].description.def

====
